---- MODULE Spec2Model ----
(***************************************************************************)
(* copy_confirmer: CopyConfirmer::compare and its helpers (src/src/lib.rs) *)
(* as a state machine.  One control thread runs compare; the workers of    *)
(* the thread pool run the hashing closures and send (path, result) pairs  *)
(* over the mpsc channel hashes_tx / hashes_rx.                            *)
(*                                                                         *)
(* A path is a sequence of characters (one-letter strings), so that        *)
(* starts_with and contains are computed on the text of the path.          *)
(***************************************************************************)
EXTENDS Integers, Sequences, FiniteSets, TLC

\* ------------------------------------------------------------------ bounds
\* Files in the source and destination trees together, and compare calls on
\* one engine.
MaxFiles == 3
MaxCalls == 2
\* Patterns in the list given to is_path_excluded when it is checked on its
\* own.
MaxPatterns == 2

\* num_threads of CopyConfirmer::new: the default of --jobs, and the value of
\* the crate's example and tests.
NumThreads == 1

\* ------------------------------------------------------- the file trees
\* The fixture of the tests: dir_A/foo/foo, dir_A/bar/foo, dir_A/foo/bar,
\* dir_A/foo/baz, in the order the walk yields them.
SrcUniverse ==
    << <<"A", "/", "f", "/", "f">>,
       <<"A", "/", "b", "/", "f">>,
       <<"A", "/", "f", "/", "b">>,
       <<"A", "/", "f", "/", "z">> >>

\* Files of the two destination roots B and C.
DstUniverse ==
    << <<"B", "/", "b">>,
       <<"C", "/", "f">>,
       <<"B", "/", "f">>,
       <<"C", "/", "b">> >>

source == <<"A">>
destinations == << <<"B">>, <<"C">> >>

Checksums == {"h1", "h2"}
IoError == "EIO"
Panics == "PANIC"
\* What hashing a file does: it yields the file's checksum, it yields an
\* io::Error, or the closure panics.
Contents == Checksums \cup {IoError, Panics}

\* ----------------------------------------------------------- ExcludePattern
MatchPathStart(part) == [kind |-> "MatchPathStart", part |-> part]
MatchEverywhere(part) == [kind |-> "MatchEverywhere", part |-> part]

\* The pattern lists an engine is built with (add_excluded_pattern): none,
\* the two of test_exclusion_match_path_start, the one of
\* test_exclusion_match_everywhere.
PatternLists ==
    { << >>,
      << MatchPathStart(<<"A", "/", "f">>), MatchPathStart(<<"/", "b">>) >>,
      << MatchEverywhere(<<"b">>) >> }

\* str::starts_with
StartsWith(s, part) ==
    /\ Len(part) <= Len(s)
    /\ SubSeq(s, 1, Len(part)) = part

\* str::contains
Contains(s, part) ==
    \E i \in 1..(Len(s) - Len(part) + 1) : SubSeq(s, i, i + Len(part) - 1) = part

PatternMatches(path_str, pattern) ==
    IF pattern.kind = "MatchEverywhere"
    THEN Contains(path_str, pattern.part)
    ELSE StartsWith(path_str, pattern.part)

\* As ExcludedFrom, but the loop ends with the pattern it looks at first,
\* matched or not.
ExcludedFromFirstOnly(path, excluded_patterns, i) ==
    IF i > Len(excluded_patterns) THEN FALSE
    ELSE PatternMatches(path, excluded_patterns[i])

\* The loop of is_path_excluded from pattern i on: true at the first match.
RECURSIVE ExcludedFrom(_, _, _)
ExcludedFrom(path, excluded_patterns, i) ==
    IF i > Len(excluded_patterns) THEN FALSE
    ELSE IF PatternMatches(path, excluded_patterns[i]) THEN TRUE
    ELSE ExcludedFrom(path, excluded_patterns, i + 1)

is_path_excluded(path, excluded_patterns) == ExcludedFrom(path, excluded_patterns, 1)

\* --------------------------------------------------------------- state
VARIABLES
    fs,                 \* the file trees: path -> Contents
    broken,             \* the directory whose walk yields an error, and after how many files
    excluded_pattern,   \* CopyConfirmer.excluded_pattern
    show_progress,      \* CopyConfirmer.show_progress
    excluded_paths,     \* CopyConfirmer.excluded_paths (the Cell)
    hashes,             \* the channel hashes_tx -> hashes_rx
    jobs,               \* the pool's job queue
    active_count,       \* ThreadPool::active_count
    queued_count,       \* ThreadPool::queued_count
    panic_count,        \* ThreadPool::panic_count
    workers,            \* each pool thread: what it is doing
    pc,                 \* where the control thread is in compare
    phase,              \* "src" or "dst": which half of compare
    total_files_source, \* compare's local
    total_dest_files,   \* compare's local
    missing_files,      \* compare's local: checksum -> paths
    found_files,        \* compare's local: checksum -> FileFound
    excluded_files,     \* compare's local
    total_files,        \* _track_progress's argument
    in_loop,            \* _track_progress: inside the while loop
    active_read,        \* _track_progress: the value active_count() returned
    pbar_pos,           \* _track_progress: the position last given to the bar
    ret,                \* what the compare calls so far returned, in order
    filter_path,        \* is_path_excluded called on its own: its argument path
    filter_patterns,    \* ... its argument excluded_patterns
    filter_result       \* ... << what it returned >>, empty before the call

vars == << fs, broken, excluded_pattern, show_progress, excluded_paths, hashes, jobs,
           active_count, queued_count, panic_count, workers, pc, phase,
           total_files_source, total_dest_files, missing_files, found_files,
           excluded_files, total_files, in_loop, active_read, pbar_pos, ret,
           filter_path, filter_patterns, filter_result >>

filter == << filter_path, filter_patterns, filter_result >>
config == << fs, broken, excluded_pattern, show_progress >>
pool == << jobs, active_count, queued_count, panic_count, workers >>
locals == << total_files_source, total_dest_files, missing_files, found_files,
             excluded_files >>
tracker == << total_files, in_loop, active_read, pbar_pos >>

Workers == 1..NumThreads
NoJob == [path |-> << >>, call |-> 0, phase |-> "none"]
NoBreak == [dir |-> << >>, at |-> 0]
EmptyMap == [h \in {} |-> << >>]

\* ----------------------------------------------------------- helpers
\* The regular files under dir, in the order WalkDir yields them.
FilesUnder(universe, dir) ==
    SelectSeq(universe, LAMBDA p : p \in DOMAIN fs /\ StartsWith(p, dir))

\* for item in WalkDir::new(dir) { let item = item?; .. }: the files the loop
\* reaches, all of them unless the walk yields its error first.
Visited(universe, dir) ==
    IF broken.dir = dir
    THEN SubSeq(FilesUnder(universe, dir), 1, broken.at)
    ELSE FilesUnder(universe, dir)

WalkFails(dir) == broken.dir = dir

\* As VisitedDestinations, with the filter of _enqueue_all_hashes_src applied
\* to the destination files too.
RECURSIVE VisitedDestinationsFiltered(_)
VisitedDestinationsFiltered(i) ==
    IF i > Len(destinations) THEN << >>
    ELSE LET kept == SelectSeq(Visited(DstUniverse, destinations[i]), LAMBDA p :
                        ~(excluded_pattern # << >> /\ is_path_excluded(p, excluded_pattern)))
         IN IF WalkFails(destinations[i]) THEN kept
            ELSE kept \o VisitedDestinationsFiltered(i + 1)

\* The files reached by the loop over destinations from the i-th on: it ends
\* with the first walk that fails.
RECURSIVE VisitedDestinations(_)
VisitedDestinations(i) ==
    IF i > Len(destinations) THEN << >>
    ELSE IF WalkFails(destinations[i]) THEN Visited(DstUniverse, destinations[i])
    ELSE Visited(DstUniverse, destinations[i]) \o VisitedDestinations(i + 1)

RECURSIVE SumSeq(_)
SumSeq(s) == IF s = << >> THEN 0 ELSE Head(s) + SumSeq(Tail(s))

RECURSIVE ConcatAll(_)
ConcatAll(seqs) ==
    IF seqs = << >> THEN << >> ELSE Head(seqs) \o ConcatAll(Tail(seqs))

\* get_total_files: the entries the walk yields without error (filter_map(ok))
\* that are regular files.
get_total_files(universe, dir) == Len(FilesUnder(universe, dir))

\* get_hash -> get_blake2_checksum: a pure function of the file's bytes.
get_hash(path) == fs[path]

\* What compare returns: Ok(found_files), MissingFiles(files) or Err(msg).
\* excluded and index are not part of the value: they record the
\* excluded_files and the found_files of the call as it returns.
RetOk ==
    [kind |-> "Ok", found |-> found_files, missing |-> << >>, err |-> "",
     excluded |-> excluded_files, index |-> found_files]
RetMissingFiles(files) ==
    [kind |-> "MissingFiles", found |-> EmptyMap, missing |-> files, err |-> "",
     excluded |-> excluded_files, index |-> found_files]
RetErr(msg) ==
    [kind |-> "Err", found |-> EmptyMap, missing |-> << >>, err |-> msg,
     excluded |-> excluded_files, index |-> found_files]

PanicMessage == "A panic occured while calculating hashes."

\* The number of the compare call that is running (or of the next one).
CallNo == Len(ret) + 1

\* ThreadPool::execute, for each of paths in turn, of the closure that hashes
\* it: the job is counted as queued and put on the pool's queue.  call and
\* phase are not part of the job: they record which compare call, and which
\* half of it, gave the job to the pool.
ExecuteAll(paths, ph) ==
    /\ queued_count' = queued_count + Len(paths)
    /\ jobs' = jobs \o [i \in 1..Len(paths) |->
                          [path |-> paths[i], call |-> CallNo, phase |-> ph]]

\* Leaving compare with value r: the locals are dropped.
Return(r) ==
    /\ ret' = Append(ret, r)
    /\ pc' = "idle"
    /\ phase' = "src"
    /\ missing_files' = EmptyMap
    /\ found_files' = EmptyMap
    /\ excluded_files' = << >>
    /\ total_files_source' = 0
    /\ total_dest_files' = 0
    /\ total_files' = 0
    /\ in_loop' = FALSE
    /\ active_read' = 0
    /\ pbar_pos' = 0

\* ---------------------------------------------------------------- Init
Min(a, b) == IF a < b THEN a ELSE b

\* The files of both trees in walk order.
AllFiles(tree) == SelectSeq(SrcUniverse \o DstUniverse, LAMBDA p : p \in DOMAIN tree)

\* Checksums are interchangeable: h1 names the one of the first file that
\* has one.
FirstChecksumIsH1(tree) ==
    LET hashed == SelectSeq(AllFiles(tree), LAMBDA p : tree[p] \in Checksums)
    IN IF hashed = << >> THEN TRUE ELSE tree[Head(hashed)] = "h1"

AtMostOne(tree, content) ==
    \A p, q \in DOMAIN tree : tree[p] = content /\ tree[q] = content => p = q

\* CopyConfirmer::new: an idle pool, an empty channel, no excluded paths; no
\* compare call is running.
new ==
    /\ excluded_paths = << >>
    /\ hashes = << >>
    /\ jobs = << >>
    /\ active_count = 0
    /\ queued_count = 0
    /\ panic_count = 0
    /\ workers = [w \in Workers |-> [st |-> "idle", job |-> NoJob]]
    /\ pc = "idle"
    /\ phase = "src"
    /\ total_files_source = 0
    /\ total_dest_files = 0
    /\ missing_files = EmptyMap
    /\ found_files = EmptyMap
    /\ excluded_files = << >>
    /\ total_files = 0
    /\ in_loop = FALSE
    /\ active_read = 0
    /\ pbar_pos = 0
    /\ ret = << >>

\* The engine after new(num_threads) and the builder calls, and a file system
\* with up to MaxFiles files: at most one of them cannot be read, at most one
\* makes its hashing job panic, and a directory that cannot be walked is
\* considered in trees whose files can all be hashed.
Init ==
    /\ \E n \in 0..Min(MaxFiles, Len(SrcUniverse)) :
         \E m \in 0..Min(MaxFiles - n, Len(DstUniverse)) :
           \E sc \in [1..n -> Contents], dc \in [1..m -> Contents] :
             fs = [p \in {SrcUniverse[i] : i \in 1..n} \cup {DstUniverse[j] : j \in 1..m} |->
                     IF \E i \in 1..n : SrcUniverse[i] = p
                     THEN sc[CHOOSE i \in 1..n : SrcUniverse[i] = p]
                     ELSE dc[CHOOSE j \in 1..m : DstUniverse[j] = p]]
    /\ FirstChecksumIsH1(fs)
    /\ AtMostOne(fs, IoError)
    /\ AtMostOne(fs, Panics)
    /\ \/ broken = NoBreak
       \/ /\ \A p \in DOMAIN fs : fs[p] \in Checksums
          /\ \/ \E k \in 0..Len(FilesUnder(SrcUniverse, source)) :
                  broken = [dir |-> source, at |-> k]
             \/ \E i \in 1..Len(destinations) :
                  \E k \in 0..Len(FilesUnder(DstUniverse, destinations[i])) :
                    broken = [dir |-> destinations[i], at |-> k]
    /\ excluded_pattern \in PatternLists
    /\ show_progress \in BOOLEAN
    /\ new
    /\ filter_path = << >>
    /\ filter_patterns = << >>
    /\ filter_result = << >>

\* ------------------------------------------------- the control thread
\* compare, lines 189-198: the totals and the empty maps.
Compare ==
    /\ pc = "idle"
    /\ Len(ret) < MaxCalls
    /\ total_files_source' = get_total_files(SrcUniverse, source)
    /\ total_dest_files' =
         SumSeq([i \in 1..Len(destinations) |-> get_total_files(DstUniverse, destinations[i])])
    /\ missing_files' = EmptyMap
    /\ found_files' = EmptyMap
    /\ excluded_files' = << >>
    /\ phase' = "src"
    /\ pc' = "enqueue_src"
    /\ UNCHANGED << filter, config, excluded_paths, hashes, pool, tracker, ret >>

\* _enqueue_all_hashes_src, lines 332-337: the files pushed to excluded_files.
SkippedSrc(reached) ==
    SelectSeq(reached, LAMBDA p :
        excluded_pattern # << >> /\ is_path_excluded(p, excluded_pattern))

\* As HashedSrc, without the continue of line 336: an excluded file is
\* hashed as well.
HashedSrcNoContinue(reached) == reached

\* _enqueue_all_hashes_src, lines 332-344: the files given to the pool, those
\* the filter lets through.
HashedSrc(reached) ==
    SelectSeq(reached, LAMBDA p :
        ~(excluded_pattern # << >> /\ is_path_excluded(p, excluded_pattern)))

\* compare, lines 200-212, with _enqueue_all_hashes_src: every file the walk
\* reaches is excluded or given to the pool as a hashing job.  A failed walk
\* ends compare at once.  Otherwise this call's excluded files are appended
\* to self.excluded_paths and _track_progress is entered.
EnqueueAllHashesSrc ==
    /\ pc = "enqueue_src"
    /\ LET reached == Visited(SrcUniverse, source)
           skipped == SkippedSrc(reached)
       IN
         /\ ExecuteAll(HashedSrc(reached), "src")
         /\ IF WalkFails(source)
            THEN /\ Return(RetErr(IoError))
                 /\ UNCHANGED excluded_paths
            ELSE /\ excluded_files' = skipped
                 /\ excluded_paths' = excluded_paths \o skipped
                 /\ total_files' = total_files_source - Len(skipped)
                 /\ in_loop' = FALSE
                 /\ pc' = "track_active"
                 /\ UNCHANGED << phase, total_files_source, total_dest_files,
                                 missing_files, found_files, active_read, pbar_pos, ret >>
    /\ UNCHANGED << filter, config, hashes, active_count, panic_count, workers >>

\* _track_progress, lines 366 and 368: the read of active_count().
TrackReadActive ==
    /\ pc = "track_active"
    /\ active_read' = active_count
    /\ pc' = "track_queued"
    /\ UNCHANGED << filter, config, excluded_paths, hashes, pool, phase, locals,
                    total_files, in_loop, pbar_pos, ret >>

\* num_not_done once queued_count() is read too.
NumNotDone == active_read + queued_count

\* _track_progress, lines 366-376: the read of queued_count(), the sum, inside
\* the loop the position of the bar, then the loop test.  total_files -
\* num_not_done is a u64 subtraction: below zero it panics (overflow checks
\* on) or wraps (off; pbar_pos then holds the difference, which stands for
\* 2^64 + pbar_pos).
TrackReadQueued ==
    /\ pc = "track_queued"
    /\ active_read' = 0
    /\ LET num_not_done == NumNotDone
           positioned == in_loop /\ show_progress
       IN
         \/ /\ num_not_done > 0
            /\ ~(positioned /\ total_files < num_not_done)
            /\ pbar_pos' = IF positioned THEN total_files - num_not_done ELSE pbar_pos
            /\ pc' = "track_active"
            /\ in_loop' = TRUE
         \/ /\ num_not_done > 0
            /\ positioned /\ total_files < num_not_done
            /\ \/ /\ pbar_pos' = total_files - num_not_done
                  /\ pc' = "track_active"
                  /\ in_loop' = TRUE
               \/ /\ pc' = "panicked"
                  /\ UNCHANGED << pbar_pos, in_loop >>
         \/ /\ num_not_done = 0
            /\ pbar_pos' = 0
            /\ in_loop' = FALSE
            /\ pc' = "panic_check"
    /\ UNCHANGED << filter, config, excluded_paths, hashes, pool, phase, locals,
                    total_files, ret >>

\* compare, lines 215-217 and 247-249: any panic in the pool is an error.
PanicCheck ==
    /\ pc = "panic_check"
    /\ IF panic_count > 0
       THEN Return(RetErr(PanicMessage))
       ELSE /\ pc' = IF phase = "src" THEN "drain_src" ELSE "drain_dst"
            /\ UNCHANGED << phase, locals, tracker, ret >>
    /\ UNCHANGED << filter, config, excluded_paths, hashes, pool >>

\* HashMap entry(hash).and_modify(|vec| vec.push(path)).or_insert(vec![path]).
PushPath(map, hash, path) ==
    [h \in DOMAIN map \cup {hash} |->
        IF h = hash
        THEN (IF hash \in DOMAIN map THEN Append(map[hash], path) ELSE << path >>)
        ELSE map[h]]

\* HashMap::remove.
RemoveKey(map, hash) == [h \in DOMAIN map \ {hash} |-> map[h]]

\* compare, lines 219-234, one turn of the loop over try_iter(): a result is
\* taken from the channel; a checksum files the path under it in
\* missing_files, an error ends compare.
DrainSrc ==
    /\ pc = "drain_src"
    /\ hashes # << >>
    /\ hashes' = Tail(hashes)
    /\ LET result == Head(hashes) IN
         IF result.res \in Checksums
         THEN /\ missing_files' = PushPath(missing_files, result.res, result.path)
              /\ UNCHANGED << pc, phase, total_files_source, total_dest_files,
                              found_files, excluded_files, tracker, ret >>
         ELSE Return(RetErr(result.res))
    /\ UNCHANGED << filter, config, excluded_paths, pool >>

\* compare, lines 219 and 237-244: try_iter() finds the channel empty and the
\* loop ends; every file the walks of the destinations reach is given to the
\* pool (_enqueue_all_hashes); a failed walk ends compare at once, otherwise
\* _track_progress is entered.
EnqueueAllHashesDst ==
    /\ pc = "drain_src"
    /\ hashes = << >>
    /\ ExecuteAll(VisitedDestinations(1), "dst")
    /\ IF \E i \in 1..Len(destinations) : WalkFails(destinations[i])
       THEN Return(RetErr(IoError))
       ELSE /\ phase' = "dst"
            /\ total_files' = total_dest_files
            /\ in_loop' = FALSE
            /\ pc' = "track_active"
            /\ UNCHANGED << locals, active_read, pbar_pos, ret >>
    /\ UNCHANGED << filter, config, excluded_paths, hashes, active_count, panic_count, workers >>

\* compare, lines 255-262: a destination result with checksum hash.
\* missing_files.remove(&hash) decides: only when it yields the source paths
\* is found_files touched.
ApplyDst(found, missing, hash, dest_path) ==
    IF hash \in DOMAIN missing
    THEN [h \in DOMAIN found \cup {hash} |->
            IF h = hash
            THEN (IF hash \in DOMAIN found
                  THEN [found[hash] EXCEPT !.dest_paths = Append(@, dest_path)]
                  ELSE [src_paths |-> missing[hash], dest_paths |-> << dest_path >>])
            ELSE found[h]]
    ELSE found

\* compare, lines 252-269, one turn of the loop over try_iter().
DrainDst ==
    /\ pc = "drain_dst"
    /\ hashes # << >>
    /\ hashes' = Tail(hashes)
    /\ LET result == Head(hashes) IN
         IF result.res \in Checksums
         THEN /\ found_files' = ApplyDst(found_files, missing_files, result.res, result.path)
              /\ missing_files' = RemoveKey(missing_files, result.res)
              /\ UNCHANGED << pc, phase, total_files_source, total_dest_files,
                              excluded_files, tracker, ret >>
         ELSE Return(RetErr(result.res))
    /\ UNCHANGED << filter, config, excluded_paths, pool >>

\* The orders in which a HashMap with these keys may be iterated.
KeyOrders(keys) ==
    { o \in [1..Cardinality(keys) -> keys] : \A i, j \in DOMAIN o : i # j => o[i] # o[j] }

\* missing_files.into_values().flatten().collect() for one iteration order.
FlattenValues(map, order) == ConcatAll([i \in DOMAIN order |-> map[order[i]]])

\* compare, lines 252 and 272-276: the channel is empty; Ok or MissingFiles.
Finish ==
    /\ pc = "drain_dst"
    /\ hashes = << >>
    /\ IF DOMAIN missing_files = {}
       THEN Return(RetOk)
       ELSE \E order \in KeyOrders(DOMAIN missing_files) :
              Return(RetMissingFiles(FlattenValues(missing_files, order)))
    /\ UNCHANGED << filter, config, excluded_paths, hashes, pool >>

\* get_excluded_paths: a clone of the Cell's vector.
get_excluded_paths == excluded_paths

\* ------------------------------------------------------ the pool threads
\* The pool is the threadpool crate's.  A pool thread receives a job and
\* counts it as active (active_count.fetch_add) ...
WorkerTake(w) ==
    /\ workers[w].st = "idle"
    /\ jobs # << >>
    /\ jobs' = Tail(jobs)
    /\ active_count' = active_count + 1
    /\ workers' = [workers EXCEPT ![w] = [st |-> "counted", job |-> Head(jobs)]]
    /\ UNCHANGED << filter, config, excluded_paths, hashes, queued_count, panic_count, pc,
                    phase, locals, tracker, ret >>

\* ... and then no longer as queued (queued_count.fetch_sub).
WorkerDequeued(w) ==
    /\ workers[w].st = "counted"
    /\ queued_count' = queued_count - 1
    /\ workers' = [workers EXCEPT ![w].st = "running"]
    /\ UNCHANGED << filter, config, excluded_paths, hashes, jobs, active_count, panic_count, pc,
                    phase, locals, tracker, ret >>

\* The closure of lines 304-308 / 340-344: sender.send((path, get_hash(path))).
WorkerRun(w) ==
    /\ workers[w].st = "running"
    /\ get_hash(workers[w].job.path) # Panics
    /\ LET job == workers[w].job IN
         hashes' = Append(hashes, [path |-> job.path, res |-> get_hash(job.path),
                                   call |-> job.call, phase |-> job.phase])
    /\ workers' = [workers EXCEPT ![w].st = "sent"]
    /\ UNCHANGED << filter, config, excluded_paths, jobs, active_count, queued_count,
                    panic_count, pc, phase, locals, tracker, ret >>

\* The closure has returned: the job is no longer active.
WorkerDone(w) ==
    /\ workers[w].st = "sent"
    /\ active_count' = active_count - 1
    /\ workers' = [workers EXCEPT ![w] = [st |-> "idle", job |-> NoJob]]
    /\ UNCHANGED << filter, config, excluded_paths, hashes, jobs, queued_count, panic_count, pc,
                    phase, locals, tracker, ret >>

\* The closure panics: nothing is sent; the pool's sentinel first takes the
\* job off the active count ...
WorkerPanic(w) ==
    /\ workers[w].st = "running"
    /\ get_hash(workers[w].job.path) = Panics
    /\ active_count' = active_count - 1
    /\ workers' = [workers EXCEPT ![w].st = "unwinding"]
    /\ UNCHANGED << filter, config, excluded_paths, hashes, jobs, queued_count, panic_count, pc,
                    phase, locals, tracker, ret >>

\* ... and then counts the panic and starts a new thread in its place.
WorkerPanicCounted(w) ==
    /\ workers[w].st = "unwinding"
    /\ panic_count' = panic_count + 1
    /\ workers' = [workers EXCEPT ![w] = [st |-> "idle", job |-> NoJob]]
    /\ UNCHANGED << filter, config, excluded_paths, hashes, jobs, active_count, queued_count, pc,
                    phase, locals, tracker, ret >>

\* ------------------------------------------------------- specification
Next ==
    \/ Compare
    \/ EnqueueAllHashesSrc
    \/ TrackReadActive
    \/ TrackReadQueued
    \/ PanicCheck
    \/ DrainSrc
    \/ EnqueueAllHashesDst
    \/ DrainDst
    \/ Finish
    \/ \E w \in Workers : WorkerTake(w)
    \/ \E w \in Workers : WorkerDequeued(w)
    \/ \E w \in Workers : WorkerRun(w)
    \/ \E w \in Workers : WorkerDone(w)
    \/ \E w \in Workers : WorkerPanic(w)
    \/ \E w \in Workers : WorkerPanicCounted(w)

Spec == Init /\ [][Next]_vars

\* The control thread is a running thread: inside compare it takes its next
\* step.  Whether compare is called again is up to the caller.
ControlStep ==
    \/ EnqueueAllHashesSrc
    \/ TrackReadActive
    \/ TrackReadQueued
    \/ PanicCheck
    \/ DrainSrc
    \/ EnqueueAllHashesDst
    \/ DrainDst
    \/ Finish

\* A pool thread is a running thread as well: it takes a queued job when it
\* is idle and runs the closure to its end.
WorkerStep(w) ==
    \/ WorkerTake(w)
    \/ WorkerDequeued(w)
    \/ WorkerRun(w)
    \/ WorkerDone(w)
    \/ WorkerPanic(w)
    \/ WorkerPanicCounted(w)

\* Spec with both kinds of thread scheduled fairly.
LiveSpec ==
    /\ Spec
    /\ WF_vars(ControlStep)
    /\ \A w \in Workers : WF_vars(WorkerStep(w))

\* ------------------------------------------- is_path_excluded on its own
\* The patterns of the tests and three more: a prefix of the destination
\* paths, a substring that spans a separator, and the empty string.
PatternPool ==
    { MatchPathStart(<<"A", "/", "f">>), MatchPathStart(<<"/", "b">>),
      MatchEverywhere(<<"b">>), MatchEverywhere(<<"/", "f">>),
      MatchPathStart(<<"B">>), MatchEverywhere(<< >>) }

\* The lists of up to MaxPatterns patterns from the pool.
PooledLists == UNION {[1..n -> PatternPool] : n \in 0..MaxPatterns}

\* A path of the trees and a pattern list; the engine is built and idle.
FilterInit ==
    /\ filter_path \in {(SrcUniverse \o DstUniverse)[i] : i \in 1..(Len(SrcUniverse) + Len(DstUniverse))}
    /\ filter_patterns \in PooledLists
    /\ filter_result = << >>
    /\ fs = EmptyMap
    /\ broken = NoBreak
    /\ excluded_pattern = filter_patterns
    /\ show_progress = FALSE
    /\ new

\* The call is_path_excluded(&path, &self.excluded_pattern) of line 333.
IsPathExcluded ==
    /\ filter_result = << >>
    /\ filter_result' = << is_path_excluded(filter_path, filter_patterns) >>
    /\ UNCHANGED << filter_path, filter_patterns, config, excluded_paths, hashes, pool,
                    pc, phase, locals, tracker, ret >>

FilterNext == IsPathExcluded

FilterSpec == FilterInit /\ [][FilterNext]_vars

\* ---------------------------------------------------------- properties
Range(seq) == {seq[i] : i \in DOMAIN seq}

\* The regular files under the source root and under the destination roots.
SrcFiles == {p \in DOMAIN fs : StartsWith(p, source)}
DstFiles == {p \in DOMAIN fs : \E i \in DOMAIN destinations : StartsWith(p, destinations[i])}

\* The source files the walk skips.
IsExcluded(p) == excluded_pattern # << >> /\ is_path_excluded(p, excluded_pattern)

\* The compare calls that returned an outcome.
Outcomes == {i \in DOMAIN ret : ret[i].kind \in {"Ok", "MissingFiles"}}

\* The jobs that compare call c gave to the pool in its half ph and whose
\* closure has not yet sent its result (or panicked): still queued, or taken
\* by a pool thread that has not run the closure to its end.
QueuedJobs(c, ph) == {i \in DOMAIN jobs : jobs[i].call = c /\ jobs[i].phase = ph}
RunningJobs(c, ph) ==
    {w \in Workers : /\ workers[w].st \in {"counted", "running"}
                     /\ workers[w].job.call = c
                     /\ workers[w].job.phase = ph}
Unfinished(c, ph) == QueuedJobs(c, ph) # {} \/ RunningJobs(c, ph) # {}

\* The results of call c's half ph that wait in the channel.
InChannel(c, ph) == {i \in DOMAIN hashes : hashes[i].call = c /\ hashes[i].phase = ph}

\* How often x occurs in seq.
CountIn(seq, x) == Cardinality({i \in DOMAIN seq : seq[i] = x})

\* The number of source paths in all entries of a FoundIndex.
RECURSIVE TotalSrcPaths(_, _)
TotalSrcPaths(found, keys) ==
    IF keys = {} THEN 0
    ELSE LET h == CHOOSE k \in keys : TRUE
         IN Len(found[h].src_paths) + TotalSrcPaths(found, keys \ {h})

\* How often path p occurs among the src_paths of a FoundIndex.
RECURSIVE CountInFound(_, _, _)
CountInFound(found, keys, p) ==
    IF keys = {} THEN 0
    ELSE LET h == CHOOSE k \in keys : TRUE
         IN CountIn(found[h].src_paths, p) + CountInFound(found, keys \ {h}, p)

\* No file that fails to hash and no directory that cannot be walked.
NoFaults == broken = NoBreak /\ \A p \in DOMAIN fs : fs[p] \in Checksums

\* A source file that is compared and whose content no destination holds.
MissingInDst(p) ==
    /\ p \in SrcFiles
    /\ ~IsExcluded(p)
    /\ fs[p] \in Checksums
    /\ \A d \in DstFiles : fs[d] # fs[p]

\* C1: (in trees without faults) when a compared source file has a checksum
\* that no destination file has, every outcome compare returns is MissingFiles with that file's path
\* in the list, never Ok, and the checksum is never a key of found_files.
C1_MissingFileReported ==
    \A p \in SrcFiles : (NoFaults /\ MissingInDst(p)) =>
        /\ fs[p] \notin DOMAIN found_files
        /\ \A i \in Outcomes :
             /\ ret[i].kind = "MissingFiles"
             /\ p \in Range(ret[i].missing)
             /\ fs[p] \notin DOMAIN ret[i].index

\* C2: without exclusion patterns, read failures and worker faults, when
\* every source file's checksum is that of some destination file, compare
\* returns Ok(found_files) and the src_paths of all entries together are as
\* many as the source files.
C2_AllPresent ==
    ( /\ excluded_pattern = << >>
      /\ NoFaults
      /\ \A p \in SrcFiles : \E d \in DstFiles : fs[d] = fs[p] )
    => \A i \in Outcomes :
         /\ ret[i].kind = "Ok"
         /\ TotalSrcPaths(ret[i].found, DOMAIN ret[i].found) = Cardinality(SrcFiles)

\* C3: (in trees without faults) when compare returns an outcome, every
\* source file is in exactly one place: the src_paths of one found_files entry, the MissingFiles list, or
\* the excluded files of this call.
C3_ExactlyOnePlace ==
    NoFaults => \A i \in Outcomes : \A p \in SrcFiles :
        CountInFound(ret[i].index, DOMAIN ret[i].index, p)
          + CountIn(ret[i].missing, p)
          + CountIn(ret[i].excluded, p) = 1

\* C4: in the destination drain (of a tree without faults, the pool at
\* rest), every result of a destination job whose checksum some source file
\* has (it is a key of missing_files or of found_files) gets its path
\* appended to found_files[checksum].dest_paths.
C4_DestinationPathAppended ==
    [][ ( /\ NoFaults
          /\ jobs = << >>
          /\ \A w \in Workers : workers[w].st = "idle"
          /\ pc = "drain_dst"
          /\ hashes # << >>
          /\ Head(hashes).phase = "dst"
          /\ Head(hashes).call = CallNo
          /\ Head(hashes).res \in DOMAIN missing_files \cup DOMAIN found_files
          /\ hashes' = Tail(hashes) )
        => /\ Head(hashes).res \in DOMAIN found_files'
           /\ found_files'[Head(hashes).res].dest_paths
                = (IF Head(hashes).res \in DOMAIN found_files
                   THEN found_files[Head(hashes).res].dest_paths
                   ELSE << >>) \o << Head(hashes).path >> ]_vars

\* The bucket of checksum h: its paths in missing_files, or the src_paths
\* they became in found_files.
Bucket(h) ==
    IF h \in DOMAIN missing_files THEN missing_files[h]
    ELSE IF h \in DOMAIN found_files THEN found_files[h].src_paths
    ELSE << >>

\* C5: (in trees without faults) once the source drain is over, every compared source file is exactly
\* once in the bucket of its checksum, in missing_files or, when a
\* destination matched the checksum, in the src_paths of found_files.
C5_WholeBucket ==
    (NoFaults /\ phase = "dst") =>
        \A p \in SrcFiles :
            (~IsExcluded(p) /\ fs[p] \in Checksums) => CountIn(Bucket(fs[p]), p) = 1

\* The paths of a FoundIndex, source and destination.
FoundPaths(found) ==
    UNION {Range(found[h].src_paths) \cup Range(found[h].dest_paths) : h \in DOMAIN found}

\* C6: a source path matched by an exclusion pattern is never given to the
\* pool, so no job and no result carries it; it is in no MissingFiles list and
\* in no found_files entry of a call that returned an outcome, and it is in
\* get_excluded_paths() from then on.
C6_ExcludedNeverCompared ==
    \A p \in SrcFiles : IsExcluded(p) =>
        /\ \A i \in DOMAIN jobs : jobs[i].path # p
        /\ \A w \in Workers : workers[w].job.path # p
        /\ \A i \in DOMAIN hashes : hashes[i].path # p
        /\ p \notin FoundPaths(found_files)
        /\ \A i \in Outcomes :
             /\ p \notin Range(ret[i].missing)
             /\ p \notin FoundPaths(ret[i].index)
        /\ (Outcomes # {} => p \in Range(get_excluded_paths))

\* C6 witness: compare returned Ok although an excluded source file has a
\* content that no destination holds, next to a source file that was hashed.
C6_Witness ==
    \E i \in Outcomes : \E p, q \in SrcFiles :
        /\ ret[i].kind = "Ok"
        /\ IsExcluded(p)
        /\ fs[p] \in Checksums
        /\ \A d \in DstFiles : fs[d] # fs[p]
        /\ ~IsExcluded(q)
        /\ q \in FoundPaths(ret[i].found)

\* C7: (in trees without faults) get_excluded_paths() is empty before the first compare call and then
\* holds exactly the source paths the most recent compare call skipped.
C7_OnlyMostRecentCall ==
    (NoFaults /\ pc = "idle") =>
        get_excluded_paths = (IF ret = << >> THEN << >> ELSE ret[Len(ret)].excluded)

\* C8: two compare calls on one engine with the same arguments and file
\* trees (without faults) return the same outcome: the same variant, the same found_files
\* and the same missing paths.
C8_SameOutcomeTwice ==
    NoFaults => \A i, j \in Outcomes :
        /\ ret[i].kind = ret[j].kind
        /\ ret[i].found = ret[j].found
        /\ Range(ret[i].missing) = Range(ret[j].missing)

\* C9: (in trees without faults) while the running call is in its destination half, none of its source
\* jobs is unfinished and none of their results waits in the channel: all
\* were drained into missing_files before a destination job was dispatched.
C9_Barrier ==
    (NoFaults /\ phase = "dst") => ~Unfinished(CallNo, "src") /\ InChannel(CallNo, "src") = {}

\* C10: (in trees without faults) _track_progress returns only when every job that the running call
\* gave to the pool in this half has finished, whatever the interleaving of
\* its two counter reads with the pool threads.
C10_ReturnsOnlyWhenQuiescent ==
    (NoFaults /\ pc = "panic_check") => ~Unfinished(CallNo, phase)

\* A file given to the pool by every compare call that reaches its root: a
\* destination file, or a source file the filter lets through.
Dispatched(p) == p \in DstFiles \/ (p \in SrcFiles /\ ~IsExcluded(p))

\* C11: when a file that compare gives to the pool cannot be read, no compare
\* call returns an outcome; when it is a source file, every call returns an
\* error and no destination job is ever given to the pool.
C11_ReadErrorIsFatal ==
    \A p \in DOMAIN fs : (fs[p] = IoError /\ Dispatched(p)) =>
        /\ Outcomes = {}
        /\ p \in SrcFiles =>
             /\ \A i \in DOMAIN ret : ret[i].kind = "Err"
             /\ \A i \in DOMAIN jobs : jobs[i].phase # "dst"
             /\ \A w \in Workers : workers[w].job.phase # "dst"
             /\ \A i \in DOMAIN hashes : hashes[i].phase # "dst"

\* C12: when the hashing job of a file panics, no compare call returns an
\* outcome; when it is a source file, every call returns the error of the
\* panic check, also when a source file cannot be read.
C12_PanicIsFatal ==
    \A p \in DOMAIN fs : (fs[p] = Panics /\ Dispatched(p)) =>
        /\ Outcomes = {}
        /\ p \in SrcFiles =>
             \A i \in DOMAIN ret : ret[i].kind = "Err" /\ ret[i].err = PanicMessage

\* The compare calls that a failed walk ended (a walk fails only in trees
\* whose files can all be read).
WalkFailed == {i \in DOMAIN ret : broken # NoBreak /\ ret[i].kind = "Err" /\ ret[i].err = IoError}

\* C13: when the walk of a root fails no compare call returns an outcome, and
\* no result of a job of a call that a failed walk ended is taken from the
\* channel into missing_files or found_files.
C13_NothingSalvaged ==
    [][ /\ (broken # NoBreak => \A i \in DOMAIN ret' : ret'[i].kind = "Err")
        /\ ( /\ hashes # << >>
             /\ hashes' = Tail(hashes)
             /\ Head(hashes).call \in WalkFailed )
           => (missing_files' = missing_files /\ found_files' = found_files) ]_vars

\* C14: with the threads scheduled fairly, every compare call that was
\* entered returns, with an outcome or an error.
C14_EveryCallReturns == (pc # "idle") ~> (pc = "idle")

\* The text of path begins with part; part occurs in the text of path.
BeginsWith(path, part) == \E k \in 0..Len(path) : SubSeq(path, 1, k) = part
OccursIn(path, part) ==
    \E a \in 0..Len(path) : \E b \in a..Len(path) : SubSeq(path, a + 1, b) = part

\* Some pattern of the list matches the path.
SomePatternMatches(path, patterns) ==
    \E i \in DOMAIN patterns :
        \/ patterns[i].kind = "MatchPathStart" /\ BeginsWith(path, patterns[i].part)
        \/ patterns[i].kind = "MatchEverywhere" /\ OccursIn(path, patterns[i].part)

\* The lists with the patterns of list in another order.
Reordered(list) ==
    { [i \in DOMAIN list |-> list[o[i]]] :
        o \in {q \in [DOMAIN list -> DOMAIN list] : \A i, j \in DOMAIN list : i # j => q[i] # q[j]} }

\* C15: is_path_excluded returns true exactly when some pattern of the list
\* matches the path (MatchPathStart: the path begins with the pattern's
\* string; MatchEverywhere: the string occurs in the path); it returns the
\* same for the patterns in any other order, and false for the empty list.
C15_FilterIffSomePatternMatches ==
    filter_result # << >> =>
        /\ filter_result[1] = SomePatternMatches(filter_path, filter_patterns)
        /\ \A other \in Reordered(filter_patterns) :
             is_path_excluded(filter_path, other) = filter_result[1]
        /\ filter_patterns = << >> => filter_result[1] = FALSE

\* C15 witness: the filter returned true for a list of two patterns whose
\* first does not match the path and whose second is a MatchEverywhere.
C15_Witness ==
    /\ filter_result = << TRUE >>
    /\ Len(filter_patterns) = 2
    /\ ~SomePatternMatches(filter_path, << filter_patterns[1] >>)
    /\ filter_patterns[2].kind = "MatchEverywhere"
    /\ filter_patterns[2].part # << >>

\* C16: progress reporting does not change what compare does: each poll of
\* _track_progress ends as it does with progress reporting disabled, back in
\* the loop while jobs are not done, and out of it once none is.
C16_ProgressOnlyObserves ==
    [][ (pc = "track_queued" /\ pc' # pc)
        => pc' = (IF NumNotDone > 0 THEN "track_active" ELSE "panic_check") ]_vars

\* What the trees decide, whatever the order of the results: the source
\* files no destination matches, the checksums both sides have, the source
\* files of a checksum, and the destination file of a checksum that the walk
\* reaches first.
ExpectedMissing == {p \in SrcFiles : MissingInDst(p)}
ExpectedKeys ==
    {fs[p] : p \in {q \in SrcFiles : ~IsExcluded(q)}} \cap {fs[d] : d \in DstFiles}
ExpectedSrcPaths(h) == {p \in SrcFiles : ~IsExcluded(p) /\ fs[p] = h}
FirstDestination(h) ==
    LET same == SelectSeq(VisitedDestinations(1), LAMBDA d : fs[d] = h)
    IN IF same = << >> THEN {} ELSE {Head(same)}

\* C17: (in trees without faults) every outcome of compare is the one the
\* trees decide, whatever the interleaving of the pool threads with the
\* control thread: the variant, the set of missing paths, the keys of
\* found_files and the sets of src_paths and dest_paths.
C17_OrderIndependent ==
    NoFaults => \A i \in Outcomes :
        /\ ret[i].kind = (IF ExpectedMissing = {} THEN "Ok" ELSE "MissingFiles")
        /\ Range(ret[i].missing) = ExpectedMissing
        /\ DOMAIN ret[i].index = ExpectedKeys
        /\ \A h \in DOMAIN ret[i].index :
             /\ Range(ret[i].index[h].src_paths) = ExpectedSrcPaths(h)
             /\ Range(ret[i].index[h].dest_paths) = FirstDestination(h)

\* The place of a source path in the walk.
WalkIndex(p) == CHOOSE i \in DOMAIN SrcUniverse : SrcUniverse[i] = p

\* C18: (in trees without faults) a MissingFiles list is not empty and holds
\* exactly the compared source paths whose checksum no destination file has,
\* each once; paths of one checksum are contiguous and in the order of their
\* results, which with one pool thread is the order of the walk.
C18_MissingList ==
    NoFaults => \A i \in DOMAIN ret : ret[i].kind = "MissingFiles" =>
        LET m == ret[i].missing IN
          /\ m # << >>
          /\ Range(m) = ExpectedMissing
          /\ Len(m) = Cardinality(ExpectedMissing)
          /\ \A a, b, c \in DOMAIN m :
               (a < b /\ b < c /\ fs[m[a]] = fs[m[c]]) => fs[m[b]] = fs[m[a]]
          /\ \A a, b \in DOMAIN m :
               (a < b /\ fs[m[a]] = fs[m[b]]) => WalkIndex(m[a]) < WalkIndex(m[b])

\* C19: (in trees without faults) in the destination drain no checksum is a
\* key of both missing_files and found_files, and every found_files entry has
\* source paths and destination paths and a checksum that a source file and a
\* destination file have.
C19_IndexesDisjoint ==
    (NoFaults /\ pc = "drain_dst") =>
        /\ DOMAIN missing_files \cap DOMAIN found_files = {}
        /\ \A h \in DOMAIN found_files :
             /\ found_files[h].src_paths # << >>
             /\ found_files[h].dest_paths # << >>
             /\ \E p \in SrcFiles : fs[p] = h
             /\ \E d \in DstFiles : fs[d] = h

\* C20: whenever no compare call is running (before the first, and after
\* each has returned, with an outcome or an error), the channel is empty and
\* the pool has no queued and no running job.
C20_NothingLeftBehind ==
    pc = "idle" =>
        /\ hashes = << >>
        /\ jobs = << >>
        /\ \A w \in Workers : workers[w].st = "idle"

\* C21: exclusion patterns are not applied to destinations.  When no walk
\* fails, the step that enters the destination half gives a job for every
\* destination file to the pool, whether or not a pattern matches its path;
\* in the destination drain the result of a destination file whose checksum is
\* a key of missing_files moves that key to found_files with the file among
\* its dest_paths; and no destination path is ever in the excluded paths.
C21_DestinationsNotFiltered ==
    [][ /\ Range(excluded_paths') \cap DstFiles = {}
        /\ (broken = NoBreak /\ pc = "drain_src" /\ pc' = "track_active")
           => \A d \in DstFiles :
                \E i \in (Len(jobs) + 1)..Len(jobs') :
                    jobs'[i] = [path |-> d, call |-> CallNo, phase |-> "dst"]
        /\ ( /\ pc = "drain_dst"
             /\ hashes # << >>
             /\ hashes' = Tail(hashes)
             /\ Head(hashes).path \in DstFiles
             /\ Head(hashes).res \in DOMAIN missing_files )
           => /\ Head(hashes).res \notin DOMAIN missing_files'
              /\ Head(hashes).res \in DOMAIN found_files'
              /\ Head(hashes).path \in Range(found_files'[Head(hashes).res].dest_paths) ]_vars

\* C21 witness: compare returned Ok with a destination file among the
\* dest_paths whose path an exclusion pattern of the engine matches.
C21_Witness ==
    \E i \in Outcomes :
        /\ ret[i].kind = "Ok"
        /\ \E h \in DOMAIN ret[i].found : \E d \in Range(ret[i].found[h].dest_paths) :
             /\ d \in DstFiles
             /\ excluded_pattern # << >>
             /\ is_path_excluded(d, excluded_pattern)

\* C22: at every poll of _track_progress the jobs counted as running or
\* queued are at most total_files, so that total_files - num_not_done is not
\* below zero, and the position given to the bar is within 0..total_files.
C22_NoUnderflow ==
    /\ pc = "track_queued" => NumNotDone <= total_files
    /\ pc # "panicked"
    /\ pbar_pos \in 0..total_files

====
